---- MODULE Spec2Model ----
(***************************************************************************)
(* Model of timestuff.py: the run of main() as a state machine, with the   *)
(* date/time helpers as operators.                                         *)
(*                                                                         *)
(* Representation of the Python values:                                    *)
(*   datetime.date       record [year, month, day]                         *)
(*   datetime.time       record [hour, minute, second]                     *)
(*   datetime.timedelta  record [days, seconds] as Python keeps it, with   *)
(*                       seconds in 0..86399 (-18 s is -1 day 86382 s) and *)
(*                       no microseconds                                   *)
(*   a call that can     record [raised, value], value being the result;   *)
(*   raise               when raised, [raised, kind, value] with the       *)
(*                       exception's type and its message                  *)
(*   None                the empty tuple                                   *)
(*   a CSV row           record of the three columns as they stand in the  *)
(*                       file: Start_Date = <<MM, DD, YYYY>>,              *)
(*                       Start_Time = <<HH, MM, SS>>,                      *)
(*                       Duration_h = <<HH, MM, SS>>                       *)
(*   a vacation          tuple <<start date, end date, paid time>>         *)
(*   "HH:MM"             <<HH, MM>>;  "DD.MM.YYYY"  <<DD, MM, YYYY>>       *)
(*   "H.HH"              the characters of the string:                     *)
(*                       <<"7", ".", "5", "0">> for "7.50"                 *)
(*   table_content       sequence of items, one per emitted line           *)
(*                                                                         *)
(* The variables are the locals of main.  call is None in a run of main;   *)
(* in a call of get_table_content on its own it holds the arguments and,   *)
(* once the function has ended, what it returned or raised.                *)
(***************************************************************************)
EXTENDS Integers, Sequences, FiniteSets, TLC

VARIABLES pc, args, input_file, date_range, df, work_times, i, files,
          output_filenames, commands, err, call

vars == <<pc, args, input_file, date_range, df, work_times, i, files,
          output_filenames, commands, err, call>>

\* ------------------------------------------------------------------ bounds
MaxEntries == 2
MaxSeconds == 1400

\* ------------------------------------------------------- values and library
None == <<>>

Date(y, m, d) == [year |-> y, month |-> m, day |-> d]

Time(h, m, s) == [hour |-> h, minute |-> m, second |-> s]

is_leap(y) == (y % 4 = 0 /\ y % 100 # 0) \/ y % 400 = 0

days_in_month(y, m) ==
    IF m = 2 THEN (IF is_leap(y) THEN 29 ELSE 28)
    ELSE IF m \in {4, 6, 9, 11} THEN 30 ELSE 31

Timedelta(d, s) == [days |-> d, seconds |-> s]

Returned(value) == [raised |-> FALSE, value |-> value]

Raised(kind, msg) == [raised |-> TRUE, kind |-> kind, value |-> msg]

\* datetime.date(y, m, d): the constructor checks year, month, day in turn
date_new(y, m, d) ==
    IF y \notin 1..9999
    THEN Raised("ValueError", <<"year", y, "is out of range">>)
    ELSE IF m \notin 1..12
    THEN Raised("ValueError", <<"month must be in 1..12">>)
    ELSE IF d < 1 \/ d > days_in_month(y, m)
    THEN Raised("ValueError", <<"day is out of range for month">>)
    ELSE Returned(Date(y, m, d))

RECURSIVE days_before_month(_, _)
days_before_month(y, m) ==
    IF m = 1 THEN 0 ELSE days_before_month(y, m - 1) + days_in_month(y, m - 1)

toordinal(date) ==
    LET p == date.year - 1
    IN  p * 365 + (p \div 4) - (p \div 100) + (p \div 400)
        + days_before_month(date.year, date.month) + date.day

\* date.weekday(): Monday is 0, Sunday is 6
weekday(date) == (toordinal(date) + 6) % 7

\* date <= date, as Python compares (year, month, day)
date_le(a, b) ==
    \/ a.year < b.year
    \/ a.year = b.year /\ a.month < b.month
    \/ a.year = b.year /\ a.month = b.month /\ a.day <= b.day

\* datetime.strptime(s, "%m/%d/%Y").date(): the format takes a month of
\* 1..12, a day of 1..31 and four digits of the year; digits of the year
\* beyond the fourth are left over, which is refused before the date is
\* built
strptime_date(s) ==
    IF s[1] \notin 1..12 \/ s[2] \notin 1..31 \/ s[3] < 0
    THEN Raised("ValueError", <<"time data does not match format">>)
    ELSE IF s[3] > 9999
    THEN Raised("ValueError", <<"unconverted data remains">>)
    ELSE date_new(s[3], s[1], s[2])

\* datetime.strptime(s, "%H:%M:%S").time(): the format takes an hour of
\* 0..23, a minute of 0..59 and a second of 0..61; of a larger second it
\* takes the leading digits and the rest is left over
strptime_time(s) ==
    IF s[1] \notin 0..23 \/ s[2] \notin 0..59 \/ s[3] < 0
    THEN Raised("ValueError", <<"time data does not match format">>)
    ELSE IF s[3] > 61
    THEN Raised("ValueError", <<"unconverted data remains">>)
    ELSE IF s[3] > 59
    THEN Raised("ValueError", <<"second must be in 0..59">>)
    ELSE Returned(Time(s[1], s[2], s[3]))

\* datetime.timedelta(days=d, seconds=s): the seconds beyond a day are
\* carried into the days, and more than 999999999 days either way are
\* refused
timedelta_new(d, s) ==
    LET days == d + s \div 86400
        seconds == s % 86400
    IN  IF days < -999999999 \/ days > 999999999
        THEN Raised("OverflowError",
                    <<"days=", days, "; must have magnitude <= 999999999">>)
        ELSE Returned(Timedelta(days, seconds))

\* timedelta + timedelta
timedelta_add(a, b) == timedelta_new(a.days + b.days, a.seconds + b.seconds)

\* ------------------------------------------------------------ the helpers
is_weekend_sat(date) == weekday(date) = 5

is_weekend(date) == weekday(date) \in {5, 6}

\* datetime.combine(date(1, 1, 1), time) + duration is a datetime of the
\* years 1..9999 or an OverflowError; .time() drops its date
add_duration_on_time(time, duration) ==
    LET dummy_date == Date(1, 1, 1)
        t == time.hour * 3600 + time.minute * 60 + time.second
             + duration.seconds
        ordinal == toordinal(dummy_date) + duration.days + t \div 86400
        s == t % 86400
    IN  IF \/ ordinal < toordinal(Date(1, 1, 1))
           \/ ordinal > toordinal(Date(9999, 12, 31))
        THEN Raised("OverflowError", <<"date value out of range">>)
        ELSE Returned(Time(s \div 3600, (s % 3600) \div 60, s % 60))

time_to_duration(time) ==
    Timedelta(0, time.second + 60 * time.minute + 3600 * time.hour)

is_date_in_range_open(date, range) ==
    date_le(range[1], date) /\ date_le(date, range[2]) /\ date # range[2]

is_date_in_range(date, range) ==
    date_le(range[1], date) /\ date_le(date, range[2])

\* round(): to the nearest integer, a tie to the even one
py_round(num, den) ==
    LET q == num \div den
        r == num % den
    IN  IF 2 * r < den THEN q
        ELSE IF 2 * r > den THEN q + 1
        ELSE IF q % 2 = 0 THEN q ELSE q + 1

round_duration_trunc(duration) ==
    timedelta_new(duration.days, (duration.seconds \div (60 * 15)) * 15 * 60)

\* a day is 96 quarter hours, so round(total_seconds() / (60 * 15)) is 96
\* for each day of the duration plus the rounded quarter hours of its
\* seconds, and timedelta(minutes=...) carries these back into the days
round_duration_to_quarter_hour(duration) ==
    LET quarter_hours == py_round(duration.seconds, 60 * 15)
    IN  timedelta_new(duration.days, (quarter_hours * 15) * 60)

round_time_to_quarter_hour(time) ==
    LET midnight == Time(0, 0, 0)
        duration_after_midnight ==
            round_duration_to_quarter_hour(time_to_duration(time))
    IN  IF duration_after_midnight.raised THEN duration_after_midnight
        ELSE add_duration_on_time(midnight, duration_after_midnight.value)

RECURSIVE pow2_mod(_, _)
pow2_mod(e, m) ==
    IF e = 0 THEN 1 % m
    ELSE LET h == pow2_mod(e \div 2, m)
         IN  IF e % 2 = 0 THEN (h * h) % m ELSE (2 * h * h) % m

\* the binary exponent of num / den as a float: the j with
\* 2^j <= |num / den| < 2^(j+1), and 0 for the float 0.0
RECURSIVE hours_exponent(_, _, _)
hours_exponent(num, den, j) ==
    IF num < 0 THEN hours_exponent(-num, den, j)
    ELSE IF num = 0 THEN j
    ELSE IF num < den THEN hours_exponent(2 * num, den, j - 1)
    ELSE IF num >= 2 * den THEN hours_exponent(num, 2 * den, j + 1)
    ELSE j

\* the j with 2^j <= n < 2^(j+1), for n >= 1
RECURSIVE floor_log2(_)
floor_log2(n) == IF n < 2 THEN 0 ELSE 1 + floor_log2(n \div 2)

\* the duration without its sign
magnitude(duration) ==
    IF duration.days >= 0 THEN duration
    ELSE IF duration.seconds = 0 THEN Timedelta(-duration.days, 0)
    ELSE Timedelta(-duration.days - 1, 86400 - duration.seconds)

\* total_seconds() / 3600 as the float division leaves it: the sign of the
\* float minus the exact quotient.  The float keeps 53 bits, so its
\* magnitude is m / 2^(52-j) with j its binary exponent and m the integer
\* nearest to |seconds| * 2^(52-j) / 3600, which is |seconds| * 2^(48-j) /
\* 225; the remainder of that division says which way m was rounded (a day
\* is 384 * 225 seconds and adds nothing to it).  The exponent of a
\* duration of days d and seconds s is that of 24 d + s / 3600, which is 4
\* more than that of its sixteenth, 3 d / 2 + s / 57600.  The division
\* rounds the magnitude, so the error of a negative quotient is the
\* opposite of its positive one's.
hours_float_error(duration) ==
    LET mag == magnitude(duration)
        sixteenth == 3 * (mag.days \div 2)
                     + (3 * (mag.days % 2) + mag.seconds \div 28800) \div 2
        j == IF mag.days = 0 THEN hours_exponent(mag.seconds, 3600, 0)
             ELSE 4 + floor_log2(sixteenth)
        rho == ((mag.seconds % 225) * pow2_mod(48 - j, 225)) % 225
        up == IF rho = 0 THEN 0 ELSE IF 2 * rho < 225 THEN -1 ELSE 1
    IN  IF duration.days < 0 THEN -up ELSE up

Digit(n) == <<"0", "1", "2", "3", "4", "5", "6", "7", "8", "9">>[n + 1]

\* str(n) for n >= 0
RECURSIVE str_int(_)
str_int(n) ==
    IF n < 10 THEN <<Digit(n)>> ELSE Append(str_int(n \div 10), Digit(n % 10))

\* "{:0.2f}".format(duration.total_seconds() / 3600): the float is printed
\* to the nearest hundredth of its own value, so a duration half way
\* between two hundredths goes the way the float division went, and to the
\* even hundredth when the float is exact.  A negative duration prints the
\* minus sign even when the hundredths are zero ("-0.00").  A day is 2400
\* hundredths of an hour and a second a 36th of one; the whole hours are
\* written as their thousands and the three digits below.
print_duration(duration) ==
    LET mag == magnitude(duration)
        q == mag.seconds \div 36
        r == mag.seconds % 36
        e == hours_float_error(mag)
        hundredths == IF 2 * r < 36 THEN q
                      ELSE IF 2 * r > 36 THEN q + 1
                      ELSE IF e > 0 THEN q + 1
                      ELSE IF e < 0 THEN q
                      ELSE IF q % 2 = 0 THEN q ELSE q + 1
        low == 24 * (mag.days % 1000) + hundredths \div 100
        thousands == 24 * (mag.days \div 1000) + low \div 1000
        units == low % 1000
        hours == IF thousands = 0 THEN str_int(units)
                 ELSE str_int(thousands)
                      \o <<Digit(units \div 100), Digit((units \div 10) % 10),
                           Digit(units % 10)>>
    IN  (IF duration.days < 0 THEN <<"-">> ELSE <<>>) \o hours \o <<".">>
        \o <<Digit((hundredths % 100) \div 10), Digit(hundredths % 10)>>

print_time(time) == <<time.hour, time.minute>>

print_date(date) == <<date.day, date.month, date.year>>

RECURSIVE is_during_vacations(_, _)
is_during_vacations(date, vacations) ==
    IF vacations = <<>> THEN None
    ELSE IF is_date_in_range(date, SubSeq(Head(vacations), 1, 2))
         THEN Head(vacations)
         ELSE is_during_vacations(date, Tail(vacations))


\* -------------------------------------------------------------- aggregation
EmptyDict == [d \in {} |-> <<>>]

DictPut(dict, key, value) ==
    [d \in DOMAIN dict \cup {key} |-> IF d = key THEN value ELSE dict[d]]

RECURSIVE get_work_times_loop(_, _, _, _)
get_work_times_loop(frame, range, k, wt) ==
    IF k > Len(frame) THEN Returned(wt)
    ELSE
      LET row == frame[k]
          start_date == strptime_date(row.Start_Date)
          start_time == strptime_time(row.Start_Time)
          parsed == strptime_time(row.Duration_h)
          duration == time_to_duration(parsed.value)
          total == timedelta_add(wt[start_date.value][2], duration)
      IN  IF start_date.raised THEN start_date
          ELSE IF range # None /\ ~is_date_in_range(start_date.value, range)
          THEN get_work_times_loop(frame, range, k + 1, wt)
          ELSE IF start_time.raised THEN start_time
          ELSE IF parsed.raised THEN parsed
          ELSE IF start_date.value \notin DOMAIN wt
          THEN get_work_times_loop(frame, range, k + 1,
                   DictPut(wt, start_date.value,
                           <<start_time.value, duration>>))
          ELSE IF total.raised THEN total
          ELSE get_work_times_loop(frame, range, k + 1,
                   DictPut(wt, start_date.value,
                           <<start_time.value, total.value>>))

get_work_times(frame, range) == get_work_times_loop(frame, range, 1, EmptyDict)

\* ---------------------------------------------------------------- rendering
WeekendLine == [kind |-> "weekend"]

work_row_unrounded_end(day, rec) ==
    LET start_time == round_time_to_quarter_hour(rec[1])
        duration == round_duration_to_quarter_hour(rec[2])
        end_time == add_duration_on_time(start_time.value, rec[2])
        pause_duration == Time(0, 0, 0)
    IN  IF start_time.raised THEN start_time
        ELSE IF duration.raised THEN duration
        ELSE IF end_time.raised THEN end_time
        ELSE Returned([kind |-> "work", day |-> day,
                       start |-> print_time(start_time.value),
                       end |-> print_time(end_time.value),
                       pause |-> print_time(pause_duration),
                       duration |-> print_duration(duration.value)])

\* lines 241-255: the row of a day that has a work time, or the
\* OverflowError of the rounding or of the addition
work_row(day, rec) ==
    LET start_time == round_time_to_quarter_hour(rec[1])
        duration == round_duration_to_quarter_hour(rec[2])
        end_time == add_duration_on_time(start_time.value, duration.value)
        pause_duration == Time(0, 0, 0)
    IN  IF start_time.raised THEN start_time
        ELSE IF duration.raised THEN duration
        ELSE IF end_time.raised THEN end_time
        ELSE Returned([kind |-> "work", day |-> day,
                       start |-> print_time(start_time.value),
                       end |-> print_time(end_time.value),
                       pause |-> print_time(pause_duration),
                       duration |-> print_duration(duration.value)])

vacation_row(day, vacation) ==
    [kind |-> "vacation", day |-> day, paid |-> print_duration(vacation[3])]

empty_row(day) == [kind |-> "empty", day |-> day]

RECURSIVE get_table_content_loop(_, _, _, _, _, _)
get_table_content_loop(wt, selected_year, month, vacs, j, table_content) ==
    IF j >= days_in_month(selected_year, month)
    THEN [raised |-> FALSE, value |-> table_content]
    ELSE
      LET day == j + 1
          date == Date(selected_year, month, day)
          marked == IF is_weekend(date)
                    THEN Append(table_content, WeekendLine)
                    ELSE table_content
          vacation == is_during_vacations(date, vacs)
          row == work_row(day, wt[date])
      IN  IF date \in DOMAIN wt
          THEN IF vacation # None
               THEN Raised("RuntimeError",
                           <<"Found work time during vacations",
                             print_date(date), print_date(vacation[1]),
                             print_date(vacation[2])>>)
               ELSE IF row.raised THEN row
               ELSE get_table_content_loop(wt, selected_year, month, vacs,
                        j + 1, Append(marked, row.value))
          ELSE IF vacation # None /\ ~is_weekend(date)
               THEN get_table_content_loop(wt, selected_year, month, vacs,
                        j + 1, Append(marked, vacation_row(day, vacation)))
               ELSE get_table_content_loop(wt, selected_year, month, vacs,
                        j + 1, Append(marked, empty_row(day)))

get_table_content(wt, selected_year, month, vacs) ==
    get_table_content_loop(wt, selected_year, month, vacs, 0, <<>>)

\* template.tex, as the sequence of its two placeholders
template == <<"%placeholder_1%", "%placeholder_2%">>

fill_template(tmpl, table_content, issue_date) ==
    [k \in DOMAIN tmpl |->
        IF tmpl[k] = "%placeholder_1%" THEN print_date(issue_date)
        ELSE IF tmpl[k] = "%placeholder_2%" THEN table_content
        ELSE tmpl[k]]

\* ---------------------------------------------------------------- end date
get_end_date_no_rollover(start_date) ==
    LET end_year == start_date.year
        end_month == start_date.month + 1
        end_day == start_date.day - 1
    IN  date_new(end_year, end_month, end_day)

get_end_date(start_date) ==
    LET end_year == IF start_date.month < 12 THEN start_date.year
                    ELSE start_date.year + 1
        end_month == IF start_date.month < 12 THEN start_date.month + 1
                     ELSE 1
        end_day == start_date.day - 1
    IN  date_new(end_year, end_month, end_day)

get_selected_date_range(a) ==
    LET start_date == a.start_date
        end_date == get_end_date(start_date)
    IN  IF end_date.raised THEN end_date
        ELSE Returned(<<start_date, end_date.value>>)

output_filename_swapped(year, month, idx) ==
    <<"Zeiterfassung", year, month, IF idx = 0 THEN "Anfang" ELSE "Ende">>

\* "Zeiterfassung_{:04d}-{:02d}_{}.tex"
output_filename(year, month, idx) ==
    <<"Zeiterfassung", year, month, IF idx = 0 THEN "Ende" ELSE "Anfang">>


\* ------------------------------------------------------------------ inputs
Row(date, time, duration) ==
    [Start_Date |-> date, Start_Time |-> time, Duration_h |-> duration]

\* rows of the runs that start on 2000-12-15 (range 2000-12-15 .. 2001-01-14):
\* the day before the range, its first day, its last day, the day after it
RunDates == {<<12, 14, 2000>>, <<12, 15, 2000>>, <<1, 14, 2001>>,
             <<1, 15, 2001>>}

\* start time and duration of a row
RunSessions == {<<<<9, 0, 0>>, <<1, 0, 0>>>>, <<<<13, 22, 30>>, <<2, 7, 30>>>>}

RunRows == {Row(d, s[1], s[2]) : d \in RunDates, s \in RunSessions}

RunFiles == UNION {[1..n -> RunRows] : n \in 0..MaxEntries}

\* -0.005 paid hours: valid_vacation takes a negative paid time
VDec == <<Date(2000, 12, 15), Date(2000, 12, 19), Timedelta(-1, 86382)>>

\* 7.705 paid hours: half way between two hundredths of an hour
VJan == <<Date(2001, 1, 8), Date(2001, 1, 14), Timedelta(0, 27738)>>

VChristmas == <<Date(2000, 12, 25), Date(2000, 12, 31),
                Timedelta(0, 4 * 3600)>>

VWinter == <<Date(2000, 12, 20), Date(2001, 1, 5), Timedelta(0, 8 * 3600)>>

VacationLists == {<<>>, <<VDec>>, <<VJan>>, <<VChristmas, VWinter>>}

\* -p and -c as get_args lets them through: -c only together with -p
Flags == {<<FALSE, FALSE>>, <<TRUE, FALSE>>, <<TRUE, TRUE>>}

DateYears == {1900, 2000, 2023, 2024, 9999}

WideDates == UNION {{Date(y, m, d) : d \in 1..days_in_month(y, m)} :
                    y \in DateYears, m \in 1..12}

RowStartTimes == {<<9, 7, 30>>, <<23, 40, 0>>, <<23, 52, 30>>}

RowDurations == {<<s \div 3600, (s % 3600) \div 60, s % 60>> :
                 s \in 0..MaxSeconds}

\* files with a field that strptime refuses: a date that is none, a month
\* 13, a year 0, a duration of 25 hours, a start at 24:00:00, a second 60
\* and 62 and 100, a year 10000, such a row outside the range before a good
\* one, and after one
GoodRow == Row(<<12, 15, 2000>>, <<9, 0, 0>>, <<1, 0, 0>>)

MalformedFiles ==
    {<<Row(<<2, 30, 2000>>, <<9, 0, 0>>, <<1, 0, 0>>)>>,
     <<Row(<<13, 1, 2000>>, <<9, 0, 0>>, <<1, 0, 0>>)>>,
     <<Row(<<1, 10, 0>>, <<9, 0, 0>>, <<1, 0, 0>>)>>,
     <<Row(<<12, 15, 2000>>, <<9, 0, 0>>, <<25, 0, 0>>)>>,
     <<Row(<<12, 15, 2000>>, <<24, 0, 0>>, <<1, 0, 0>>)>>,
     <<Row(<<12, 15, 2000>>, <<10, 0, 60>>, <<1, 0, 0>>)>>,
     <<Row(<<12, 15, 2000>>, <<10, 0, 0>>, <<1, 0, 62>>)>>,
     <<Row(<<12, 15, 2000>>, <<9, 0, 0>>, <<1, 0, 100>>)>>,
     <<Row(<<12, 15, 10000>>, <<9, 0, 0>>, <<1, 0, 0>>)>>,
     <<Row(<<12, 14, 2000>>, <<9, 60, 0>>, <<25, 0, 0>>), GoodRow>>,
     <<GoodRow, Row(<<12, 32, 2000>>, <<9, 0, 0>>, <<1, 0, 0>>)>>}

NoError == [kind |-> "none", msg |-> <<>>]

Args(start_date, p, c, v) == [start_date |-> start_date, p |-> p, c |-> c,
                              v |-> v]

\* -------------------------------------------------------------------- Init
InitLocals ==
    /\ pc = "get_selected_date_range"
    /\ date_range = None
    /\ df = <<>>
    /\ work_times = EmptyDict
    /\ i = 0
    /\ files = <<>>
    /\ output_filenames = <<>>
    /\ commands = <<>>
    /\ err = NoError
    /\ call = None

\* runs over every small input file, vacation list and flag setting
InitRuns ==
    /\ \E f \in Flags, v \in VacationLists :
          args = Args(Date(2000, 12, 15), f[1], f[2], v)
    /\ input_file \in RunFiles

\* runs from every start date of four years
InitDates ==
    /\ \E d \in WideDates : args = Args(d, FALSE, FALSE, <<>>)
    /\ input_file = <<Row(<<12, 20, 2000>>, <<9, 0, 0>>, <<1, 0, 0>>)>>

\* runs over one row, with every duration up to MaxSeconds
InitRows ==
    /\ args = Args(Date(2000, 12, 15), FALSE, FALSE, <<>>)
    /\ \E t \in RowStartTimes, u \in RowDurations :
          input_file = <<Row(<<12, 15, 2000>>, t, u)>>

\* runs over files with a malformed field
InitMalformed ==
    /\ args = Args(Date(2000, 12, 15), FALSE, FALSE, <<>>)
    /\ input_file \in MalformedFiles

Init == InitLocals /\ (InitRuns \/ InitDates \/ InitRows \/ InitMalformed)

\* ----------------------------------------------------------------- actions
\* "vacations = args.v or []"
vacations == args.v

Raise(kind, msg) ==
    /\ pc' = "error"
    /\ err' = [kind |-> kind, msg |-> msg]

\* line 445
GetSelectedDateRange ==
    /\ pc = "get_selected_date_range"
    /\ LET r == get_selected_date_range(args)
       IN  IF r.raised
           THEN /\ Raise(r.kind, r.value)
                /\ UNCHANGED date_range
           ELSE /\ date_range' = r.value
                /\ pc' = "read_csv"
                /\ UNCHANGED err
    /\ UNCHANGED <<call, args, input_file, df, work_times, i, files,
                   output_filenames, commands>>

\* lines 446-449
ReadCsv ==
    /\ pc = "read_csv"
    /\ df' = input_file
    /\ pc' = "get_work_times"
    /\ UNCHANGED <<call, args, input_file, date_range, work_times, i, files,
                   output_filenames, commands, err>>

GetWorkTimesUnchecked ==
    /\ pc = "get_work_times"
    /\ LET r == get_work_times(df, date_range)
       IN  IF r.raised
           THEN /\ Raise(r.kind, r.value)
                /\ UNCHANGED work_times
           ELSE /\ work_times' = r.value
                /\ pc' = "loop"
                /\ UNCHANGED err
    /\ UNCHANGED <<call, args, input_file, date_range, df, i, files,
                   output_filenames, commands>>

\* lines 450-453
GetWorkTimes ==
    /\ pc = "get_work_times"
    /\ LET r == get_work_times(df, date_range)
       IN  IF r.raised
           THEN /\ Raise(r.kind, r.value)
                /\ UNCHANGED work_times
           ELSE /\ work_times' = r.value
                /\ IF Cardinality(DOMAIN r.value) = 0
                   THEN Raise("RuntimeError",
                              <<"There were no work times in the selected months.">>)
                   ELSE /\ pc' = "loop"
                        /\ UNCHANGED err
    /\ UNCHANGED <<call, args, input_file, date_range, df, i, files,
                   output_filenames, commands>>

\* lines 454-467: one iteration of the loop over the two months
WriteMonth ==
    /\ pc = "loop"
    /\ LET date == date_range[i + 1]
           year == date.year
           month == date.month
           table_content == get_table_content(work_times, year, month,
                                              vacations)
       IN  IF table_content.raised
           THEN /\ Raise(table_content.kind, table_content.value)
                /\ UNCHANGED <<i, files, output_filenames>>
           ELSE LET output_tex == fill_template(template, table_content.value,
                                                date_range[2])
                    name == output_filename(year, month, i)
                IN  /\ files' = Append(files, [name |-> name,
                                               content |-> output_tex])
                    /\ output_filenames' = Append(output_filenames, name)
                    /\ i' = i + 1
                    /\ pc' = IF i + 1 < Len(date_range) THEN "loop"
                             ELSE IF args.p THEN "latexmk" ELSE "done"
                    /\ UNCHANGED err
    /\ UNCHANGED <<call, args, input_file, date_range, df, work_times, commands>>

Command(command, ok) == [command |-> command, ok |-> ok]

RunLatexmkKeepGoing ==
    /\ pc = "latexmk"
    /\ \E ok \in BOOLEAN :
          LET k == Len(commands) + 1
          IN  /\ commands' = Append(commands,
                     Command(<<"latexmk", "-pdf", output_filenames[k]>>, ok))
              /\ pc' = IF k < Len(output_filenames) THEN "latexmk"
                       ELSE IF args.c THEN "cleanup" ELSE "done"
              /\ UNCHANGED err
    /\ UNCHANGED <<call, args, input_file, date_range, df, work_times, i, files,
                   output_filenames>>

\* lines 468-470: run_command(["latexmk", "-pdf", output_filename]) for the
\* next file; check_output raises when the command fails
RunLatexmk ==
    /\ pc = "latexmk"
    /\ \E ok \in BOOLEAN :
          LET k == Len(commands) + 1
              command == <<"latexmk", "-pdf", output_filenames[k]>>
          IN  /\ commands' = Append(commands, Command(command, ok))
              /\ IF ok
                 THEN /\ pc' = IF k < Len(output_filenames) THEN "latexmk"
                               ELSE IF args.c THEN "cleanup" ELSE "done"
                      /\ UNCHANGED err
                 ELSE Raise("CalledProcessError", command)
    /\ UNCHANGED <<call, args, input_file, date_range, df, work_times, i, files,
                   output_filenames>>

\* lines 471-472: run_command(["latexmk", "-c"])
Cleanup ==
    /\ pc = "cleanup"
    /\ \E ok \in BOOLEAN :
          LET command == <<"latexmk", "-c">>
          IN  /\ commands' = Append(commands, Command(command, ok))
              /\ IF ok
                 THEN /\ pc' = "done"
                      /\ UNCHANGED err
                 ELSE Raise("CalledProcessError", command)
    /\ UNCHANGED <<call, args, input_file, date_range, df, work_times, i, files,
                   output_filenames>>

Next ==
    \/ GetSelectedDateRange
    \/ ReadCsv
    \/ GetWorkTimes
    \/ WriteMonth
    \/ RunLatexmk
    \/ Cleanup

Spec == Init /\ [][Next]_vars

\* ------------------------------------------- get_table_content on its own
\* get_table_content and the rounding under it take any day-record map, also
\* one with totals that only a file of millions of rows adds up to: here the
\* function is called with arguments drawn from a set.
Call(wt, selected_year, month, vacs) ==
    [work_times |-> wt, selected_year |-> selected_year, month |-> month,
     vacations |-> vacs, result |-> None]

OneDay(date, time, duration) == [d \in {date} |-> <<time, duration>>]

RunRange == get_selected_date_range(Args(Date(2000, 12, 15), FALSE, FALSE,
                                         <<>>)).value

\* the maps that get_work_times makes of the run files
RunMaps ==
    {get_work_times(f, RunRange).value :
        f \in {g \in RunFiles :
                 /\ ~get_work_times(g, RunRange).raised
                 /\ DOMAIN get_work_times(g, RunRange).value # {}}}

\* totals up to the ends of what a datetime and a timedelta hold: the last
\* day of the year 9999 is 3652058 days after 0001-01-01, and a timedelta
\* has at most 999999999 days
WideDurations ==
    {Timedelta(1, 7650), Timedelta(3652058, 0), Timedelta(3652058, 85500),
     Timedelta(3652059, 0), Timedelta(999999999, 85949),
     Timedelta(999999999, 85950)}

WideStarts == {Time(0, 0, 0), Time(0, 15, 0), Time(9, 0, 0)}

\* a vacation over a February of 28 and one of 29 days
VLeap == <<Date(2023, 2, 20), Date(2024, 2, 29), Timedelta(0, 8 * 3600)>>

\* months of 28, 29 and 30 days
OtherMonths == {<<2023, 2>>, <<2024, 2>>, <<2000, 11>>}

RunMonths == {<<2000, 12>>, <<2001, 1>>}

RenderCalls ==
    {Call(m, ym[1], ym[2], v) :
        m \in RunMaps, ym \in RunMonths, v \in VacationLists}
    \cup {Call(OneDay(Date(2000, 12, 15), Time(t[1], t[2], t[3]),
                      Timedelta(0, u)), 2000, 12, <<>>) :
              t \in RowStartTimes, u \in 0..MaxSeconds}
    \cup {Call(OneDay(Date(ym[1], ym[2], 15), t, u), ym[1], ym[2], <<>>) :
              ym \in RunMonths, t \in WideStarts, u \in WideDurations}
    \cup {Call(OneDay(Date(ym[1], ym[2], 15), Time(9, 0, 0),
                      Timedelta(0, 3600)), ym[1], ym[2], v) :
              ym \in OtherMonths, v \in {<<>>, <<VLeap>>}}

\* a call of get_table_content outside a run of main: the locals of main
\* are as before its first line
InitRender ==
    /\ call \in RenderCalls
    /\ pc = "get_table_content"
    /\ args = None
    /\ input_file = <<>>
    /\ date_range = None
    /\ df = <<>>
    /\ work_times = EmptyDict
    /\ i = 0
    /\ files = <<>>
    /\ output_filenames = <<>>
    /\ commands = <<>>
    /\ err = NoError

\* lines 201-265: the call runs to its return or to its exception
GetTableContent ==
    /\ pc = "get_table_content"
    /\ call' = [call EXCEPT !.result =
                   get_table_content(call.work_times, call.selected_year,
                                     call.month, call.vacations)]
    /\ pc' = "returned"
    /\ UNCHANGED <<args, input_file, date_range, df, work_times, i, files,
                   output_filenames, commands, err>>

SpecRender == InitRender /\ [][GetTableContent]_vars


\* ------------------------------------------------------------- properties
\* what the properties are stated in, taken from the input and the outputs
HmsSeconds(hms) == hms[1] * 3600 + hms[2] * 60 + hms[3]

EntryDate(k) == Date(df[k].Start_Date[3], df[k].Start_Date[1],
                     df[k].Start_Date[2])

InSelectedRange(d) ==
    /\ date_range # None
    /\ toordinal(date_range[1]) <= toordinal(d)
    /\ toordinal(d) <= toordinal(date_range[2])

\* get_work_times has returned: the run is past it and did not end in the
\* ValueError of get_end_date or of a malformed row (an OverflowError of
\* the rendering is met with the map in work_times)
Aggregated ==
    \/ pc \in {"loop", "latexmk", "cleanup", "done"}
    \/ pc = "error" /\ err.kind \in {"RuntimeError", "CalledProcessError"}
    \/ pc = "error" /\ err.kind = "OverflowError" /\ DOMAIN work_times # {}

EntriesOn(d) == {k \in DOMAIN df : EntryDate(k) = d}

RECURSIVE SumOfDurations(_)
SumOfDurations(ks) ==
    IF ks = {} THEN 0
    ELSE LET k == CHOOSE x \in ks : TRUE
         IN  HmsSeconds(df[k].Duration_h) + SumOfDurations(ks \ {k})

InSomeVacation(d) ==
    \E n \in DOMAIN args.v :
        /\ toordinal(args.v[n][1]) <= toordinal(d)
        /\ toordinal(d) <= toordinal(args.v[n][2])

FollowingMonth(d) ==
    IF d.month = 12 THEN <<d.year + 1, 1>> ELSE <<d.year, d.month + 1>>

PriorMonth(d) ==
    IF d.month = 1 THEN <<d.year - 1, 12>> ELSE <<d.year, d.month - 1>>

IsRow(item) == item.kind # "weekend"

\* the table rows of the n-th written document, without the weekend markers
RowsOf(n) == SelectSeq(files[n].content[2], IsRow)

FileDate(n, day) == Date(files[n].name[2], files[n].name[3], day)

EmptyResultMessage == <<"There were no work times in the selected months.">>

\* C1: after aggregation, the start time stored for a date is the start time
\* of the first input entry of that date, however many entries share it.
C1_FirstStartTimeKept ==
    Aggregated =>
        \A d \in DOMAIN work_times :
            LET first == CHOOSE k \in EntriesOn(d) :
                             \A j \in EntriesOn(d) : k <= j
                t == df[first].Start_Time
            IN  work_times[d][1] = Time(t[1], t[2], t[3])

\* C2: once a work date lies inside a vacation period, the run writes no
\* document and can only end in the conflict error, whichever of the two
\* months holds the conflict.
C2_ConflictWritesNothing ==
    (Aggregated /\ \E d \in DOMAIN work_times : InSomeVacation(d)) =>
        /\ files = <<>>
        /\ pc \in {"loop", "error"}
        /\ pc = "error" => err.kind = "RuntimeError"

\* C3: the end date is day - 1 of the month after the start date's month
\* (January of the next year after December); when that is no calendar date
\* the run ends in a ValueError with nothing read, aggregated or written.
C3_EndDateOrError ==
    pc # "get_selected_date_range" =>
        LET s == args.start_date
            ym == FollowingMonth(s)
            d == s.day - 1
        IN  /\ IF d >= 1 /\ d <= days_in_month(ym[1], ym[2]) /\ ym[1] <= 9999
               THEN date_range = <<s, Date(ym[1], ym[2], d)>>
               ELSE /\ pc = "error"
                    /\ err.kind = "ValueError"
                    /\ date_range = None
                    /\ df = <<>>
                    /\ DOMAIN work_times = {}
                    /\ files = <<>>
                    /\ commands = <<>>
            /\ s = Date(2000, 12, 15) => date_range[2] = Date(2001, 1, 14)
            /\ (s.day = 1 \/ s = Date(2024, 1, 31)) => err.kind = "ValueError"

C3_Witness ==
    /\ pc = "error"
    /\ err.kind = "ValueError"
    /\ args.start_date = Date(2024, 1, 31)

\* C4 as stated: a successful run has written exactly two documents, "Ende"
\* for the month of the start date and "Anfang" for the month before it.
C4_AnfangIsPriorMonth ==
    pc = "done" =>
        LET s == args.start_date
            prior == PriorMonth(s)
        IN  /\ Len(files) = 2
            /\ files[1].name = <<"Zeiterfassung", s.year, s.month, "Ende">>
            /\ files[2].name = <<"Zeiterfassung", prior[1], prior[2],
                                 "Anfang">>

\* C4 amended: a successful run has written exactly two documents, "Ende" for
\* the month of the start date and "Anfang" for the month after it, which is
\* the month of the end date.
C4_AnfangIsFollowingMonth ==
    pc = "done" =>
        LET s == args.start_date
            following == FollowingMonth(s)
        IN  /\ Len(files) = 2
            /\ files[1].name = <<"Zeiterfassung", s.year, s.month, "Ende">>
            /\ files[2].name = <<"Zeiterfassung", following[1], following[2],
                                 "Anfang">>
            /\ following = <<date_range[2].year, date_range[2].month>>
            /\ files[1].name # files[2].name

C4_Witness ==
    /\ pc = "done"
    /\ Len(files) = 2
    /\ args.start_date = Date(2000, 12, 15)

\* C5: a date is a key of the aggregated map exactly when some input entry
\* has that date and the date is inside the inclusive range; its stored
\* duration is the sum of the durations of all entries of that date and is
\* not negative.
C5_RangeFilterAndSum ==
    Aggregated =>
        /\ \A d \in DOMAIN work_times \cup {EntryDate(k) : k \in DOMAIN df} :
              d \in DOMAIN work_times <=>
                  (EntriesOn(d) # {} /\ InSelectedRange(d))
        /\ \A d \in DOMAIN work_times :
              /\ work_times[d][2]
                     = Timedelta(SumOfDurations(EntriesOn(d)) \div 86400,
                                 SumOfDurations(EntriesOn(d)) % 86400)
              /\ work_times[d][2].days >= 0

C5_Witness ==
    /\ Aggregated
    /\ Len(df) = 2
    /\ Date(2001, 1, 14) \in DOMAIN work_times
    /\ work_times[Date(2001, 1, 14)][2] = Timedelta(0, 3600 + 7650)
    /\ date_range[2] = Date(2001, 1, 14)

\* C6: when no input entry lies in the selected range, the run ends in the
\* empty-result error with no document written and no command run.
C6_EmptyResultStops ==
    ( /\ Aggregated
      /\ \A k \in DOMAIN df : ~InSelectedRange(EntryDate(k)) ) =>
        /\ pc = "error"
        /\ err.kind = "RuntimeError"
        /\ err.msg = EmptyResultMessage
        /\ files = <<>>
        /\ output_filenames = <<>>
        /\ commands = <<>>

C6_Witness ==
    /\ pc = "error"
    /\ err.msg = EmptyResultMessage
    /\ Len(df) = 2
    /\ args.p

\* what a call of get_table_content has emitted, without the weekend
\* markers
CallRows == SelectSeq(call.result.value, IsRow)

CallDate(day) == Date(call.selected_year, call.month, day)

InCallVacation(d) ==
    \E n \in DOMAIN call.vacations :
        /\ toordinal(call.vacations[n][1]) <= toordinal(d)
        /\ toordinal(d) <= toordinal(call.vacations[n][2])

ExpectedKind(d) ==
    IF d \in DOMAIN call.work_times THEN "work"
    ELSE IF InCallVacation(d) /\ weekday(d) \notin {5, 6} THEN "vacation"
    ELSE "empty"

\* the call has returned a table of one row per calendar day of the month,
\* in ascending day order, each of the kind its day asks for
TableOk ==
    /\ ~call.result.raised
    /\ Len(CallRows) = days_in_month(call.selected_year, call.month)
    /\ \A k \in DOMAIN CallRows :
          /\ CallRows[k].day = k
          /\ CallRows[k].kind = ExpectedKind(CallDate(k))

\* the recorded days of the month of the call
RecordedDays ==
    {d \in DOMAIN call.work_times : /\ d.year = call.selected_year
                                    /\ d.month = call.month}

Conflict == \E d \in RecordedDays : InCallVacation(d)

\* the call has ended
Ended == pc = "returned"

QuarterHours(seconds) == py_round(seconds, 900)

\* the day, counted from 0001-01-01 as day 0, on which the rounded start
\* time plus the rounded total of a day record falls
EndDay(rec) ==
    LET start == (QuarterHours(rec[1].hour * 3600 + rec[1].minute * 60
                               + rec[1].second) * 900) % 86400
    IN  rec[2].days
        + (start + QuarterHours(rec[2].seconds) * 900) \div 86400

\* the rounded total is more than a timedelta holds, or the end is no time
\* of the years 1..9999
Overflows(rec) ==
    \/ rec[2].days + QuarterHours(rec[2].seconds) \div 96 > 999999999
    \/ EndDay(rec) < 0
    \/ EndDay(rec) > 3652058

\* C7 as stated: for every month, every day-record map and every vacation
\* list with no conflict in that month, get_table_content emits a table, of
\* one row per calendar day in ascending day order, each row of the kind its
\* day asks for.
C7_EveryMapRenders ==
    (Ended /\ ~Conflict) => TableOk

\* C7 amended: for every month, every day-record map and every vacation
\* list with no conflict in that month, get_table_content raises
\* OverflowError and emits nothing when some recorded day of the month has a
\* rounded start plus rounded total outside the years 1..9999, and otherwise
\* emits one row per calendar day of the month, in ascending day order: a
\* Work row when the day has a record, a Vacation row when it has none, lies
\* in a vacation and is no Saturday or Sunday, and an Empty row otherwise.
C7_OneRowPerDay ==
    (Ended /\ ~Conflict) =>
        IF \E d \in RecordedDays : Overflows(call.work_times[d])
        THEN call.result.raised /\ call.result.kind = "OverflowError"
        ELSE TableOk

C7_Witness ==
    /\ Ended
    /\ ~call.result.raised
    /\ call.vacations = <<VChristmas, VWinter>>
    /\ call.selected_year = 2000
    /\ call.month = 12
    /\ CallRows[15].kind = "work"
    /\ CallRows[22].kind = "vacation"
    /\ CallRows[24].kind = "empty"
    /\ CallRows[31].kind = "empty"

\* the rounded value r is within half a quarter hour of the duration x
Nearest(x, r) ==
    (r.days - x.days) * 86400 + r.seconds - x.seconds \in -450..450

\* C8 as stated: for every non-negative duration x, rounding gives a
\* multiple of 15 minutes that is a nearest one to x, and rounding the
\* result again changes nothing.  (Read once the call has ended, of the
\* totals of the map, which it had to round.)
C8_EveryDurationRounds ==
    Ended =>
        \A d \in DOMAIN call.work_times :
            LET x == call.work_times[d][2]
                r == round_duration_to_quarter_hour(x)
            IN  x.days >= 0 =>
                  /\ ~r.raised
                  /\ round_duration_to_quarter_hour(r.value) = r
                  /\ r.value.seconds % 900 = 0
                  /\ Nearest(x, r.value)

\* C8 amended: for every non-negative duration x below 999999999 days
\* 23:52:30, rounding gives a multiple of 15 minutes that is a nearest one
\* to x, and rounding the result again changes nothing; for a longer x,
\* whose nearest multiple is 1000000000 days, rounding raises OverflowError.
\* (Read once the call has ended, of the totals of the map.)
C8_RoundingIdempotent ==
    Ended =>
        \A d \in DOMAIN call.work_times :
            LET x == call.work_times[d][2]
                r == round_duration_to_quarter_hour(x)
            IN  x.days >= 0 =>
                  IF x.days = 999999999 /\ x.seconds >= 85950
                  THEN r.raised /\ r.kind = "OverflowError"
                  ELSE /\ ~r.raised
                       /\ round_duration_to_quarter_hour(r.value) = r
                       /\ r.value.seconds % 900 = 0
                       /\ Nearest(x, r.value)

C8_Witness ==
    /\ Ended
    /\ ~call.result.raised
    /\ Date(2000, 12, 15) \in DOMAIN call.work_times
    /\ call.work_times[Date(2000, 12, 15)][2] = Timedelta(0, 1350)
    /\ CallRows[15].duration = <<"0", ".", "5", "0">>

IsDigit(c) == c \in {Digit(n) : n \in 0..9}

RECURSIVE DigitsValue(_)
DigitsValue(cs) ==
    IF cs = <<>> THEN 0
    ELSE 10 * DigitsValue(SubSeq(cs, 1, Len(cs) - 1))
         + (CHOOSE n \in 0..9 : Digit(n) = cs[Len(cs)])

\* the hundredths of an hour that a printed duration shows
Hundredths(str) == DigitsValue(SelectSeq(str, IsDigit))

\* C9: in every Work row the start is a quarter hour nearest to the recorded
\* start time, the duration a quarter hour multiple nearest to the day's
\* total, the end is start plus duration as a time of day (their difference
\* is the duration while the sum stays below 24:00), and the pause is 00:00.
C9_WorkRowConsistent ==
    \A n \in DOMAIN files :
        \A k \in DOMAIN RowsOf(n) :
            LET row == RowsOf(n)[k]
                rec == work_times[FileDate(n, k)]
                recorded == rec[1].hour * 3600 + rec[1].minute * 60
                            + rec[1].second
                total == rec[2].days * 86400 + rec[2].seconds
                start == row.start[1] * 60 + row.start[2]
                end == row.end[1] * 60 + row.end[2]
                shown == Hundredths(row.duration)
                minutes == (shown * 36) \div 60
            IN  row.kind = "work" =>
                  /\ start % 15 = 0
                  /\ (start * 60 - recorded) % 86400
                         \in (0..450) \cup (85950..86399)
                  /\ row.duration[1] # "-"
                  /\ shown % 25 = 0
                  /\ shown * 36 - total \in -450..450
                  /\ end % 15 = 0
                  /\ end = (start + minutes) % 1440
                  /\ start + minutes < 1440 => end - start = minutes
                  /\ row.pause = <<0, 0>>

C9_Witness ==
    /\ Len(files) = 2
    /\ Date(2000, 12, 15) \in DOMAIN work_times
    /\ work_times[Date(2000, 12, 15)] = <<Time(23, 40, 0), Timedelta(0, 1000)>>
    /\ RowsOf(1)[15].start = <<23, 45>>
    /\ RowsOf(1)[15].end = <<0, 0>>

\* C10: commands are run only with -p and only after both documents are
\* written; the k-th compiles the k-th document; nothing follows a failed
\* command; the cleanup comes third and only with -c.
C10_CompileOrder ==
    /\ commands # <<>> => (args.p /\ Len(files) = 2)
    /\ Len(commands) <= 3
    /\ \A k \in DOMAIN commands :
          /\ k <= 2 => commands[k].command
                           = <<"latexmk", "-pdf", files[k].name>>
          /\ k = 3 => (commands[k].command = <<"latexmk", "-c">> /\ args.c)
          /\ k < Len(commands) => commands[k].ok
          /\ ~commands[k].ok => (pc = "error"
                                 /\ err.kind = "CalledProcessError")
    /\ pc = "done" =>
          Len(commands) = IF args.p THEN (IF args.c THEN 3 ELSE 2) ELSE 0

C10_Witness ==
    /\ pc = "done"
    /\ Len(commands) = 3
    /\ commands[3].ok

====
